---- MODULE Spec2Model ----
(***************************************************************************)
(* Model of pgxn-deps: operating-system / package-manager catalog          *)
(* (src/src/operating_system.rs) and the Repology registry client          *)
(* (src/src/package_type/repology.rs).                                     *)
(*                                                                         *)
(* Strings are TLA+ strings; Len, \o and SubSeq act on them character by   *)
(* character.  Option<T> is a sequence of length at most one: <<>> is      *)
(* None and <<v>> is Some(v).  Result<T> is [tag, val] with tag "Ok" or    *)
(* "Err".                                                                  *)
(***************************************************************************)
EXTENDS Integers, Sequences, FiniteSets, TLC

VARIABLES
    pc,        \* position of the call: "idle", an await point, or "done"
    call,      \* the operation being run (or last run) and its arguments
    ret,       \* what the last finished operation returned
    requests,  \* GET requests sent by the current get_projects call
    resp,      \* the registry's response to the current get_projects call
    outcomes   \* number of times the current get_projects call has returned

vars == <<pc, call, ret, requests, resp, outcomes>>

(***************************** bounds **************************************)
\* longest JSON array the registry answers with
MaxProjects == 3
\* most lines of /etc/os-release
MaxLines == 3

(*************************** value helpers *********************************)
None == <<>>
Some(v) == <<v>>
Ok(v) == [tag |-> "Ok", val |-> v]
Err(e) == [tag |-> "Err", val |-> e]
NoRet == [tag |-> "None", val |-> <<>>]
\* A response body: text that is no JSON array (json = FALSE, the text in
\* text), or the text of a JSON array of objects (json = TRUE, the objects
\* in array).
TextBody(t) == [json |-> FALSE, text |-> t, array |-> <<>>]
JsonBody(a) == [json |-> TRUE, text |-> "", array |-> a]
\* no response received (yet)
NoResp == [status |-> 0, readable |-> FALSE, body |-> TextBody("")]

\* crate::error::Error values other than FailedRequest, by variant
Error(kind) == [kind |-> kind, status_code |-> 0, message |-> TextBody("")]

\* all sequences over S of length at most n
RECURSIVE SeqsUpTo(_, _)
SeqsUpTo(S, n) ==
    IF n = 0 THEN {<<>>}
    ELSE LET shorter == SeqsUpTo(S, n - 1)
         IN  shorter \cup {Append(s, x) : s \in {t \in shorter : Len(t) = n - 1}, x \in S}

\* str::starts_with
starts_with(s, prefix) ==
    /\ Len(prefix) <= Len(s)
    /\ SubSeq(s, 1, Len(prefix)) = prefix

(************************ operating_system.rs ******************************)
OperatingSystem == {"Mac", "Debian", "RedHat", "Windows"}
PackageManager == {"Apt", "Dnf", "Yum", "Chocolatey", "Homebrew"}

package_managers_swapped(os) ==
    CASE os = "Mac" -> <<"Homebrew">>
      [] os = "Debian" -> <<"Apt">>
      [] os = "RedHat" -> <<"Yum", "Dnf">>
      [] os = "Windows" -> <<"Chocolatey">>

package_managers_shared(os) ==
    CASE os = "Mac" -> <<"Homebrew">>
      [] os = "Debian" -> <<"Apt", "Dnf">>
      [] os = "RedHat" -> <<"Dnf", "Yum">>
      [] os = "Windows" -> <<"Chocolatey">>

package_managers(os) ==
    CASE os = "Mac" -> <<"Homebrew">>
      [] os = "Debian" -> <<"Apt">>
      [] os = "RedHat" -> <<"Dnf", "Yum">>
      [] os = "Windows" -> <<"Chocolatey">>

requires_sudo_brew(pm) ==
    CASE pm \in {"Apt", "Dnf", "Yum", "Homebrew"} -> TRUE
      [] pm \in {"Chocolatey"} -> FALSE

requires_sudo(pm) ==
    CASE pm \in {"Apt", "Dnf", "Yum"} -> TRUE
      [] pm \in {"Homebrew", "Chocolatey"} -> FALSE

repology_repository_prefix_yum_apt(pm) ==
    CASE pm = "Apt" -> <<"debian_", "ubuntu_">>
      [] pm = "Dnf" -> <<"fedora_", "centos_">>
      [] pm = "Yum" -> <<"centos_", "ubuntu_">>
      [] pm = "Chocolatey" -> <<"chocolatey">>
      [] pm = "Homebrew" -> <<"homebrew">>

repology_repository_prefix(pm) ==
    CASE pm = "Apt" -> <<"debian_", "ubuntu_">>
      [] pm \in {"Dnf", "Yum"} -> <<"fedora_", "centos_">>
      [] pm = "Chocolatey" -> <<"chocolatey">>
      [] pm = "Homebrew" -> <<"homebrew">>

install_verb(pm) ==
    CASE pm = "Apt" -> "apt-get install -y"
      [] pm = "Dnf" -> "dnf install -y"
      [] pm = "Yum" -> "yum install -y"
      [] pm = "Homebrew" -> "brew install"
      [] pm = "Chocolatey" -> "choco install"

install_always_sudo(pm, package_name) ==
    "sudo " \o install_verb(pm) \o " " \o package_name

install(pm, package_name) ==
    (IF requires_sudo(pm) THEN "sudo " ELSE "") \o install_verb(pm) \o " " \o package_name

(*********************** /etc/os-release and detect ************************)
\* Build targets: cfg!(target_os = "linux"), cfg!(windows), cfg!(target_os = "macos")
Targets == {"linux", "windows", "macos", "other"}

\* One item of the file as read_line sees it: the bytes up to and including
\* the next "\n" (the last item of a file may lack it).  utf8 = FALSE is a
\* line whose bytes are not valid UTF-8.
Raw(t) == [utf8 |-> TRUE, text |-> t]
FullLines ==
    {Raw(t \o "\n") : t \in {"ID=debian", "ID=fedora", "ID=centos", "ID=rhel",
                             "ID=debian-derivative", "NAME=Debian"}}
    \cup {Raw("ID=debian\r\n"), [utf8 |-> FALSE, text |-> "\n"]}
LastLines == {Raw("ID=rhel"), Raw("ID=debian\r"), Raw("ID=fedora_")}

\* fs::File::open result: None when the file cannot be opened
OsReleaseFiles ==
    {None}
    \cup {Some(f) : f \in SeqsUpTo(FullLines, MaxLines)}
    \cup {Some(Append(f, l)) : f \in SeqsUpTo(FullLines, MaxLines - 1), l \in LastLines}

\* BufRead::lines on one item: drop a final "\n", then a "\r" before it
lines_item(raw) ==
    IF ~raw.utf8 THEN Err("InvalidData")
    ELSE LET t == raw.text
             n == Len(t)
         IN  IF n >= 1 /\ SubSeq(t, n, n) = "\n"
             THEN IF n >= 2 /\ SubSeq(t, n - 1, n - 1) = "\r"
                  THEN Ok(SubSeq(t, 1, n - 2))
                  ELSE Ok(SubSeq(t, 1, n - 1))
             ELSE Ok(t)

lines(f) == [i \in DOMAIN f |-> lines_item(f[i])]

\* the for loop of detect_linux_distribution from item i on
RECURSIVE scan_prefix_match(_, _)
scan_prefix_match(ls, i) ==
    IF i > Len(ls) THEN None
    ELSE IF ls[i].tag # "Ok" THEN scan_prefix_match(ls, i + 1)
    ELSE IF starts_with(ls[i].val, "ID=debian") THEN Some("Debian")
    ELSE IF \E p \in {"ID=fedora", "ID=centos", "ID=rhel"} : starts_with(ls[i].val, p)
         THEN Some("RedHat")
    ELSE scan_prefix_match(ls, i + 1)

RECURSIVE scan(_, _)
scan(ls, i) ==
    IF i > Len(ls) THEN None
    ELSE IF ls[i].tag # "Ok" THEN scan(ls, i + 1)
    ELSE IF ls[i].val = "ID=debian" THEN Some("Debian")
    ELSE IF ls[i].val \in {"ID=fedora", "ID=centos", "ID=rhel"} THEN Some("RedHat")
    ELSE scan(ls, i + 1)

detect_linux_distribution(file) ==
    IF file = None THEN None ELSE scan(lines(file[1]), 1)

detect(target, file) ==
    LET os == IF target = "linux" THEN detect_linux_distribution(file)
              ELSE IF target = "windows" THEN Some("Windows")
              ELSE IF target = "macos" THEN Some("Mac")
              ELSE None
    IN  IF os = None THEN Err(Error("UnsupportedOperatingSystem")) ELSE Ok(os[1])

(****************************** repology.rs ********************************)
base_domain == "https://repology.org/api"

request_url(project_name) == base_domain \o "/v1/project/" \o project_name

FailedRequest(status_code, message) ==
    [kind |-> "FailedRequest", status_code |-> status_code, message |-> message]

\* Keys of a registry JSON object (camelCase of single lowercase words is
\* the word itself, so the keys are the field names).
RequiredKeys == {"repo", "visiblename", "version", "status"}

opt_field(obj, k) == IF k \in DOMAIN obj THEN Some(obj[k]) ELSE None
vec_field(obj, k) == IF k \in DOMAIN obj THEN obj[k] ELSE <<>>

\* serde Deserialize for Project, from one JSON object
deserialize_project(obj) ==
    IF ~(RequiredKeys \subseteq DOMAIN obj) THEN Err(Error("Decode"))
    ELSE Ok([repo |-> obj.repo,
             srcname |-> opt_field(obj, "srcname"),
             visiblename |-> obj.visiblename,
             version |-> obj.version,
             origversion |-> opt_field(obj, "origversion"),
             status |-> obj.status,
             vulnerable |-> opt_field(obj, "vulnerable"),
             licenses |-> vec_field(obj, "licenses"),
             summary |-> opt_field(obj, "summary"),
             categories |-> vec_field(obj, "categories"),
             subrepo |-> opt_field(obj, "subrepo"),
             binname |-> opt_field(obj, "binname"),
             maintainers |-> vec_field(obj, "maintainers")])

\* serde Deserialize for Vec<Project>: element by element, the first
\* failure ends it
RECURSIVE deserialize_vec(_, _, _)
deserialize_vec(arr, i, acc) ==
    IF i > Len(arr) THEN Ok(acc)
    ELSE LET p == deserialize_project(arr[i])
         IN  IF p.tag = "Err" THEN p
             ELSE deserialize_vec(arr, i + 1, Append(acc, p.val))

\* Response::json: read the body, then deserialize it
response_json(r) ==
    IF ~r.readable THEN Err(Error("Reqwest"))
    ELSE IF ~r.body.json THEN Err(Error("Decode"))
    ELSE deserialize_vec(r.body.array, 1, <<>>)

\* Response::text().await.unwrap_or_default()
response_text_or_default(r) == IF r.readable THEN r.body ELSE TextBody("")

\* StatusCode::is_success
is_success_upto_399(status) == 200 <= status /\ status < 400
is_success(status) == 200 <= status /\ status < 300

\* the closure given to Vec::retain
retain_pred_exact(project, pms) ==
    \E i \in DOMAIN pms :
        \E j \in DOMAIN repology_repository_prefix(pms[i]) :
            project.repo = repology_repository_prefix(pms[i])[j]

retain_pred(project, pms) ==
    \E i \in DOMAIN pms :
        \E j \in DOMAIN repology_repository_prefix(pms[i]) :
            starts_with(project.repo, repology_repository_prefix(pms[i])[j])

\* Vec::retain: one pass in index order, keeping the elements the closure accepts
RECURSIVE retain(_, _, _)
retain(projects, pms, i) ==
    IF i > Len(projects) THEN <<>>
    ELSE IF retain_pred(projects[i], pms)
         THEN <<projects[i]>> \o retain(projects, pms, i + 1)
         ELSE retain(projects, pms, i + 1)

(******************************* inputs ************************************)
PackageNames == {"nginx", "", "pg_partman", "x; rm -rf /"}
ProjectNames == {"nginx", "postgresql"}

JsonObjects ==
    { [repo |-> "debian_stable", visiblename |-> "nginx", version |-> "1.22.1",
       status |-> "outdated"],
      [repo |-> "debian_stable", visiblename |-> "nginx-full", version |-> "1.22.1",
       status |-> "outdated", srcname |-> "nginx", maintainers |-> <<"a@debian.org">>],
      [repo |-> "ubuntu_24_04", visiblename |-> "nginx", version |-> "1.24.0",
       status |-> "outdated", vulnerable |-> TRUE],
      [repo |-> "homebrew", visiblename |-> "nginx", version |-> "1.27.0",
       status |-> "newest", licenses |-> <<"BSD-2-Clause">>],
      [repo |-> "chocolatey", visiblename |-> "nginx", version |-> "1.27.0",
       status |-> "newest"],
      [repo |-> "fedora_40", visiblename |-> "nginx", version |-> "1.26.1",
       status |-> "outdated", binname |-> "nginx-core"],
      [repo |-> "centos_stream_9", visiblename |-> "nginx", version |-> "1.20.1",
       status |-> "legacy"],
      [repo |-> "debian", visiblename |-> "nginx", version |-> "1.0",
       status |-> "outdated"],
      [repo |-> "nix_unstable", visiblename |-> "nginx", version |-> "1.27.0"],
      [repo |-> "fedora_40", version |-> "1.26.1", status |-> "outdated"],
      [repo |-> "homebrew", visiblename |-> "nginx", status |-> "newest"],
      [visiblename |-> "nginx", version |-> "1.27.0", status |-> "newest"] }

Bodies ==
    {TextBody("not found"), TextBody("")}
    \cup {JsonBody(a) : a \in SeqsUpTo(JsonObjects, MaxProjects)}

Statuses == {101, 200, 299, 300, 404, 500}

\* what the registry may answer: long arrays come with status 200 only
Responses ==
    {[status |-> s, readable |-> rd, body |-> IF rd THEN b ELSE TextBody("")] :
        s \in Statuses, rd \in BOOLEAN,
        b \in {x \in Bodies : Len(x.array) <= 1}}
    \cup {[status |-> 200, readable |-> TRUE, body |-> b] : b \in Bodies}

(******************************* actions ***********************************)
\* each run of the model is one call of one operation
Ready == pc = "idle"

\* a synchronous operation: called, run and returned in one step
Returns(c, r) ==
    /\ pc' = "done"
    /\ call' = c
    /\ ret' = r
    /\ requests' = 0
    /\ resp' = NoResp
    /\ outcomes' = 0

CallPackageManagers ==
    /\ Ready
    /\ \E os \in OperatingSystem :
           Returns([op |-> "package_managers", os |-> os], Ok(package_managers(os)))

CallRequiresSudo ==
    /\ Ready
    /\ \E pm \in PackageManager :
           Returns([op |-> "requires_sudo", pm |-> pm], Ok(requires_sudo(pm)))

CallRepologyRepositoryPrefix ==
    /\ Ready
    /\ \E pm \in PackageManager :
           Returns([op |-> "repology_repository_prefix", pm |-> pm],
                   Ok(repology_repository_prefix(pm)))

CallInstall ==
    /\ Ready
    /\ \E pm \in PackageManager, n \in PackageNames :
           Returns([op |-> "install", pm |-> pm, name |-> n], Ok(install(pm, n)))

CallDetect ==
    /\ Ready
    /\ \E t \in Targets, f \in OsReleaseFiles :
           \* the file is read on a Linux target only
           /\ t # "linux" => f = None
           /\ Returns([op |-> "detect", target |-> t, file |-> f], detect(t, f))

\* get_projects up to Url::parse(&url)?, when parsing fails.  Url::parse is
\* the url crate's: its outcome is not decided by this repository's code.
GetProjectsUrlError ==
    /\ Ready
    /\ \E n \in ProjectNames, os \in OperatingSystem :
           /\ pc' = "done"
           /\ call' = [op |-> "get_projects", name |-> n, os |-> os,
                       url |-> request_url(n)]
           /\ ret' = Err(Error("UrlParse"))
           /\ requests' = 0
           /\ resp' = NoResp
           /\ outcomes' = 1

\* get_projects up to .send().await: the GET request is on its way
GetProjectsSend ==
    /\ Ready
    /\ \E n \in ProjectNames, os \in OperatingSystem :
           /\ pc' = "await_send"
           /\ call' = [op |-> "get_projects", name |-> n, os |-> os,
                       url |-> request_url(n)]
           /\ ret' = NoRet
           /\ requests' = 1
           /\ resp' = NoResp
           /\ outcomes' = 0

\* a client that sends the request again after a transport failure
SendFails_retry ==
    /\ pc = "await_send"
    /\ requests < 3
    /\ requests' = requests + 1
    /\ UNCHANGED <<pc, call, ret, resp, outcomes>>

\* .send().await? fails: connection, DNS, TLS
SendFails ==
    /\ pc = "await_send"
    /\ pc' = "done"
    /\ ret' = Err(Error("Reqwest"))
    /\ outcomes' = outcomes + 1
    /\ UNCHANGED <<call, requests, resp>>

\* .send().await? yields a response; the status check runs up to the next await
next_await(r) == IF ~is_success(r.status) THEN "await_text" ELSE "await_json"

SendCompletes ==
    /\ pc = "await_send"
    /\ \E r \in Responses :
        /\ resp' = r
        /\ pc' = next_await(r)
    /\ UNCHANGED <<call, ret, requests, outcomes>>

\* resp.text().await.unwrap_or_default(), then return Err(FailedRequest)
failed_request_outcome(r) ==
    Err(FailedRequest(r.status, response_text_or_default(r)))

TextCompletes ==
    /\ pc = "await_text"
    /\ pc' = "done"
    /\ ret' = failed_request_outcome(resp)
    /\ outcomes' = outcomes + 1
    /\ UNCHANGED <<call, requests, resp>>

\* resp.json().await?, then projects.retain(..) and Ok(projects)
json_outcome_skip_bad(r, os) ==
    IF ~r.readable \/ ~r.body.json THEN Err(Error("Decode"))
    ELSE LET good == SelectSeq(r.body.array, LAMBDA o : deserialize_project(o).tag = "Ok")
         IN  Ok(retain(deserialize_vec(good, 1, <<>>).val, package_managers(os), 1))

json_outcome(r, os) ==
    LET projects == response_json(r)
    IN  IF projects.tag = "Err" THEN projects
        ELSE Ok(retain(projects.val, package_managers(os), 1))

JsonCompletes ==
    /\ pc = "await_json"
    /\ pc' = "done"
    /\ ret' = json_outcome(resp, call.os)
    /\ outcomes' = outcomes + 1
    /\ UNCHANGED <<call, requests, resp>>

Init ==
    /\ pc = "idle"
    /\ call = [op |-> "none"]
    /\ ret = NoRet
    /\ requests = 0
    /\ resp = NoResp
    /\ outcomes = 0

Next ==
    \/ CallPackageManagers
    \/ CallRequiresSudo
    \/ CallRepologyRepositoryPrefix
    \/ CallInstall
    \/ CallDetect
    \/ GetProjectsUrlError
    \/ GetProjectsSend
    \/ SendFails
    \/ SendCompletes
    \/ TextCompletes
    \/ JsonCompletes

Spec == Init /\ [][Next]_vars

(***************************** properties **********************************)
Range(s) == {s[i] : i \in DOMAIN s}

Finished(op) == pc = "done" /\ call.op = op

\* a get_projects call that has returned after the registry answered
Answered == Finished("get_projects") /\ resp # NoResp
In2xx(status) == status \in 200..299

\* repo starts with some prefix of some manager of os
Accepts(os, repo) ==
    \E pm \in Range(package_managers(os)) :
        \E p \in Range(repology_repository_prefix(pm)) : starts_with(repo, p)

KeptIndices(ps, os) == {i \in DOMAIN ps : Accepts(os, ps[i].repo)}
\* the k-th smallest element of a set of indices
NthOf(S, k) == CHOOSE i \in S : Cardinality({j \in S : j <= i}) = k

\* out is the subsequence of ps at the indices in K, in order
IsSubsequenceAt(out, ps, K) ==
    /\ Len(out) = Cardinality(K)
    /\ \A k \in 1..Len(out) : out[k] = ps[NthOf(K, k)]

\* C1: on a 2xx response whose body deserializes, get_projects returns
\* exactly the projects whose repo starts with a prefix of a manager of os:
\* all of them, no other, in their original order, multiplicity and contents.
C1_FilterExact ==
    (Answered /\ In2xx(resp.status) /\ response_json(resp).tag = "Ok") =>
        /\ ret.tag = "Ok"
        /\ IsSubsequenceAt(ret.val, response_json(resp).val,
                           KeptIndices(response_json(resp).val, call.os))

\* the spec's example: repos debian_stable, homebrew, chocolatey on Debian
\* keep the debian_stable entry only
C1_Witness ==
    /\ Answered
    /\ call.os = "Debian"
    /\ resp.status = 200 /\ resp.readable /\ resp.body.json
    /\ Len(resp.body.array) = 3
    /\ opt_field(resp.body.array[1], "repo") = Some("debian_stable")
    /\ opt_field(resp.body.array[2], "repo") = Some("homebrew")
    /\ opt_field(resp.body.array[3], "repo") = Some("chocolatey")
    /\ ret.tag = "Ok"
    /\ Len(ret.val) = 1
    /\ ret.val[1].repo = "debian_stable"

\* C2: a status outside 200..299 makes get_projects return
\* Error::FailedRequest with that status code and the raw body as message
\* (the empty string when the body cannot be read), never a success value.
C2_FailedRequest ==
    (Answered /\ ~In2xx(resp.status)) =>
        /\ ret.tag = "Err"
        /\ ret.val.kind = "FailedRequest"
        /\ ret.val.status_code = resp.status
        /\ ret.val.message = (IF resp.readable THEN resp.body ELSE TextBody(""))

C2_Witness ==
    /\ Answered
    /\ resp.status = 404 /\ resp.readable /\ resp.body = TextBody("not found")
    /\ ret = Err(FailedRequest(404, TextBody("not found")))

\* some element of the array lacks a required field
HasBadElement(arr) == \E i \in DOMAIN arr : ~({"repo", "visiblename", "version", "status"} \subseteq DOMAIN arr[i])

\* C3: get_projects has no partial success: on a 2xx response it returns
\* either an error or the list filtered from the whole array.  A body that is
\* malformed, or has any element lacking repo, visiblename, version or status,
\* makes the whole call an error, also when the filter would drop that element.
C3_NoPartialSuccess ==
    (Answered /\ In2xx(resp.status) /\ resp.readable) =>
        IF ~resp.body.json \/ HasBadElement(resp.body.array)
        THEN ret.tag = "Err" /\ ret.val.kind = "Decode"
        ELSE /\ ret.tag = "Ok"
             /\ Len(ret.val) =
                  Cardinality({i \in DOMAIN resp.body.array :
                                 Accepts(call.os, resp.body.array[i].repo)})

\* a Debian entry followed by a nix_unstable entry without status: the
\* filter would drop the second, and the call is an error
C3_Witness ==
    /\ Answered
    /\ call.os = "Debian"
    /\ resp.status = 200 /\ resp.readable /\ resp.body.json
    /\ Len(resp.body.array) = 2
    /\ opt_field(resp.body.array[1], "repo") = Some("debian_stable")
    /\ "status" \notin DOMAIN resp.body.array[2]
    /\ opt_field(resp.body.array[2], "repo") = Some("nix_unstable")
    /\ ~Accepts("Debian", "nix_unstable")
    /\ ret.tag = "Err"

\* the install verbs as the specification lists them
SpecVerb(pm) ==
    CASE pm = "Apt" -> "apt-get install -y"
      [] pm = "Dnf" -> "dnf install -y"
      [] pm = "Yum" -> "yum install -y"
      [] pm = "Homebrew" -> "brew install"
      [] pm = "Chocolatey" -> "choco install"

\* C4: install(pm, n) is sudo_prefix + verb + " " + n, sudo_prefix being
\* "sudo " exactly when requires_sudo(pm), and n is not modified.
C4_InstallCommand ==
    Finished("install") =>
        LET n == call.name
            out == ret.val
            sudo == IF requires_sudo(call.pm) THEN "sudo " ELSE ""
        IN  /\ ret.tag = "Ok"
            /\ out = sudo \o SpecVerb(call.pm) \o " " \o n
            /\ Len(out) = Len(sudo) + Len(SpecVerb(call.pm)) + 1 + Len(n)
            /\ SubSeq(out, Len(out) - Len(n) + 1, Len(out)) = n
            /\ (call.pm = "Apt" /\ n = "nginx") => out = "sudo apt-get install -y nginx"
            /\ (call.pm = "Homebrew" /\ n = "nginx") => out = "brew install nginx"

C4_Witness ==
    /\ Finished("install")
    /\ call.pm = "Homebrew"
    /\ call.name = "x; rm -rf /"
    /\ ret.val = "brew install x; rm -rf /"

DistroLines == {"ID=debian", "ID=fedora", "ID=centos", "ID=rhel"}
\* the items of an opened file that decode to exactly one of DistroLines
MatchingLines(f) ==
    {i \in DOMAIN f : lines(f)[i].tag = "Ok" /\ lines(f)[i].val \in DistroLines}
FirstOf(S) == CHOOSE i \in S : \A j \in S : i <= j

\* C5: on Linux, detect() is decided by the first line of /etc/os-release
\* equal to ID=debian (Debian) or to ID=fedora, ID=centos or ID=rhel (RedHat);
\* longer lines and undecodable lines never match; with no such line, or no
\* file, it fails with UnsupportedOperatingSystem.
C5_DetectLinux ==
    (Finished("detect") /\ call.target = "linux") =>
        IF call.file = None \/ MatchingLines(call.file[1]) = {}
        THEN ret = Err(Error("UnsupportedOperatingSystem"))
        ELSE LET f == call.file[1]
                 first == lines(f)[FirstOf(MatchingLines(f))].val
             IN  ret = Ok(IF first = "ID=debian" THEN "Debian" ELSE "RedHat")

\* ID=debian-derivative is passed over, the later ID=fedora decides and the
\* ID=debian after it is ignored
C5_Witness ==
    /\ Finished("detect")
    /\ call.target = "linux"
    /\ call.file # None
    /\ Len(call.file[1]) = 3
    /\ call.file[1][1] = Raw("ID=debian-derivative\n")
    /\ call.file[1][2] = Raw("ID=fedora\n")
    /\ call.file[1][3] = Raw("ID=debian\n")
    /\ ret = Ok("RedHat")

\* the managers other than pm that return one of pm's prefixes
SharingManagers(pm) ==
    {q \in PackageManager \ {pm} :
        Range(repology_repository_prefix(q)) \cap Range(repology_repository_prefix(pm)) # {}}

\* C6 as stated: no prefix returned for one manager is returned for a
\* different manager.
C6_GloballyDistinct ==
    Finished("repology_repository_prefix") =>
        \A q \in PackageManager \ {call.pm} :
            Range(ret.val) \cap Range(repology_repository_prefix(q)) = {}

\* C6 (amended): prefixes are distinct across package managers except for
\* Dnf and Yum, which return the same prefixes fedora_ and centos_: any two
\* different managers other than that pair share no prefix.
C6_DistinctExceptDnfYum ==
    Finished("repology_repository_prefix") =>
        /\ \A q \in PackageManager \ {call.pm} :
              {call.pm, q} # {"Dnf", "Yum"} =>
                  Range(ret.val) \cap Range(repology_repository_prefix(q)) = {}
        /\ call.pm \in {"Dnf", "Yum"} =>
              /\ ret.val = <<"fedora_", "centos_">>
              /\ SharingManagers(call.pm) = {"Dnf", "Yum"} \ {call.pm}

C6_Witness ==
    /\ Finished("repology_repository_prefix")
    /\ call.pm = "Dnf"
    /\ ret.val = repology_repository_prefix("Yum")
    /\ "fedora_" \in Range(ret.val)

\* C7: package_managers() is non-empty for every operating system (Dnf
\* then Yum for RedHat), and every manager in it has a non-empty list of
\* pairwise distinct, non-empty prefixes.
C7_NonEmptyCatalog ==
    Finished("package_managers") =>
        /\ ret.tag = "Ok"
        /\ Len(ret.val) >= 1
        /\ call.os = "RedHat" => ret.val = <<"Dnf", "Yum">>
        /\ \A k \in DOMAIN ret.val :
              LET ps == repology_repository_prefix(ret.val[k])
              IN  /\ ret.val[k] \in PackageManager
                  /\ Len(ps) >= 1
                  /\ \A i \in DOMAIN ps : Len(ps[i]) >= 1
                  /\ \A i, j \in DOMAIN ps : i # j => ps[i] # ps[j]

C7_Witness ==
    /\ Finished("package_managers")
    /\ call.os = "RedHat"
    /\ Len(ret.val) = 2
    /\ ret.val[1] = "Dnf" /\ ret.val[2] = "Yum"

\* C8: requires_sudo() is total on PackageManager, TRUE exactly for Apt,
\* Dnf and Yum and FALSE exactly for Homebrew and Chocolatey.
C8_RequiresSudo ==
    Finished("requires_sudo") =>
        /\ ret.tag = "Ok"
        /\ ret.val \in BOOLEAN
        /\ ret.val <=> call.pm \in {"Apt", "Dnf", "Yum"}
        /\ ~ret.val <=> call.pm \in {"Homebrew", "Chocolatey"}

C8_Witness ==
    /\ Finished("requires_sudo")
    /\ call.pm = "Homebrew"
    /\ ret = Ok(FALSE)

InGetProjects == call.op = "get_projects"

\* at every point of a get_projects call: at most one request sent, at most
\* one outcome, an outcome exactly when the call is over, none sent when the
\* URL did not parse
C9_State ==
    InGetProjects =>
        /\ requests <= 1
        /\ outcomes <= 1
        /\ pc = "done" <=> outcomes = 1
        /\ pc = "done" <=> ret.tag \in {"Ok", "Err"}
        /\ pc # "done" => ret = NoRet
        /\ (ret.tag = "Err" /\ ret.val.kind = "UrlParse") => requests = 0
        /\ (ret.tag = "Err" /\ ret.val.kind # "UrlParse") => requests = 1
        /\ ret.tag = "Ok" => requests = 1

\* a step of a get_projects call sends nothing more, and a returned
\* outcome is final
C9_Step ==
    InGetProjects =>
        /\ requests' = requests
        /\ ret.tag \in {"Ok", "Err"} => ret' = ret /\ pc' = pc

\* C9: a get_projects call sends at most one GET request and never retries:
\* after a URL-parse failure (nothing sent), a transport failure, a
\* non-success status or a deserialization failure it ends with that error
\* and sends nothing more, and it ends in exactly one outcome, Ok or Err.
C9_SingleRequestNoRetry == [](C9_State) /\ [][C9_Step]_vars

\* a transport failure: one request sent, no response, the call over
C9_Witness ==
    /\ Finished("get_projects")
    /\ requests = 1
    /\ resp = NoResp
    /\ outcomes = 1
    /\ ret = Err(Error("Reqwest"))

\* strings around the prefixes: every truncation of a prefix, alone or
\* followed by a prefix or a suffix
AllPrefixes == UNION {Range(repology_repository_prefix(pm)) : pm \in PackageManager}
Truncations == UNION {{SubSeq(p, 1, k) : k \in 0..Len(p)} : p \in AllPrefixes}
RepoIds == {t \o s : t \in Truncations, s \in AllPrefixes \cup {"", "_", "_stable"}}

\* what get_projects returns for operating system os on response r
ListFor(r, os) == retain(response_json(r).val, package_managers(os), 1)

\* C10: no repository identifier is accepted for two different operating
\* systems, no prefix is a prefix of another manager's, and over the same
\* response the lists returned for two operating systems share no project.
C10_PartitionByOs ==
    /\ pc = "await_send" =>
          /\ \A r \in RepoIds : \A a, b \in OperatingSystem :
                a # b => ~(Accepts(a, r) /\ Accepts(b, r))
          /\ \A p, q \in AllPrefixes : p # q => ~starts_with(q, p)
    /\ (Answered /\ ret.tag = "Ok") =>
          \A b \in OperatingSystem \ {call.os} :
              /\ Range(ret.val) \cap Range(ListFor(resp, b)) = {}
              /\ \A i \in DOMAIN ret.val : ~Accepts(b, ret.val[i].repo)

\* a response listing a Debian and a Fedora entry: RedHat gets the second
\* only, Debian the first only
C10_Witness ==
    /\ Answered
    /\ call.os = "RedHat"
    /\ ret.tag = "Ok"
    /\ Len(ret.val) = 1
    /\ ret.val[1].repo = "fedora_40"
    /\ Len(ListFor(resp, "Debian")) = 1
    /\ ListFor(resp, "Debian")[1].repo = "debian_stable"

====
